---- MODULE Spec2Model ----
(***************************************************************************)
(* Model of the Unique duplicate-elimination engine of sql/uniques.h:      *)
(* Unique_impl keeps keys in an in-memory TREE charged against             *)
(* max_in_memory_size, dumps the tree to a spill file as a sorted run      *)
(* when it is full, and get/walk merge the runs.                           *)
(*                                                                         *)
(* unique_add, is_full, space_left, get_n_elements, is_in_memory,          *)
(* elements_in_tree and close_for_expansion are translated from the        *)
(* header.  flush, merge, get, walk, reset, the constructor and the TREE   *)
(* primitives are only declared there; they are modelled from the          *)
(* written description of the engine.                                      *)
(***************************************************************************)
EXTENDS Integers, Sequences, FiniteSets, TLC

(* ------------------------------ bounds --------------------------------- *)

\* keys are 1..NumKeys; key k is a packed key with a payload of k bytes
NumKeys == 3
\* successful add calls in one behaviour
MaxAdds == 3
\* injected I/O or allocation failures in one behaviour
MaxFailures == 1
\* reset calls in one behaviour
MaxResets == 1
\* largest min_dupl_count tried
MaxMinDupl == 2
\* width of size_t in the model (scaled down from 64)
SizeTBits == 12
\* bits of a byte in the model (scaled down from 8): uint and int have
\* sizeof(uint) bytes
ByteBits == 2
\* key counts 0..MaxNKeys are tried in the cost model, next to the ones
\* close to the range of int
MaxNKeys == 8

(* ---------------------------- constants -------------------------------- *)

\* Variable_size_keys_descriptor::size_of_length_field
size_of_length_field == 4
\* sizeof(TREE_ELEMENT) + tree.size_of_element, scaled down
TreeElementOverhead == 2
\* tree.flag value set by close_for_expansion
TREE_ONLY_DUPS == 1
\* sizeof(uint)
sizeof_uint == 4
\* sizeof(TREE_ELEMENT)
sizeof_TREE_ELEMENT == 24
\* sizeof(double), the unit of ALIGN_SIZE
sizeof_double == 8

Keys == 1..NumKeys
\* budgets tried; the record sizes of keys 1, 2, 3 are 7, 8, 9: with 8 key 3
\* alone is over the budget, with 16 two keys fit, with 24 all three fit
Budgets == {8, 16, 24}
SizeTMod == 2 ^ SizeTBits
ByteMod == 2 ^ ByteBits
UIntMod == ByteMod ^ sizeof_uint

VARIABLES
  max_in_memory_size,  \* budget in bytes
  min_dupl_count,      \* threshold applied by get/walk
  with_counters,       \* runs and output carry occurrence counts
  tree,                \* [Keys -> Nat]: occurrence count of each key held, 0 = absent
  tree_flag,           \* tree.flag: 0 or TREE_ONLY_DUPS
  memory_used,         \* bytes charged to the tree
  elements,            \* entries flushed to completed runs
  file,                \* spill file: sequence of written entries
  file_ptrs,           \* run directory: [pos, rowcount] per completed run
  out,                 \* what the last get/walk emitted
  pc,                  \* "open": accepting adds; "done": get/walk returned 0;
                       \* "failed": an operation returned 1, the instance may
                       \* only be reset; "aborted": a DBUG_ASSERT fired
  retval,              \* return value of the last operation (0 ok, 1 failure)
  hist,                \* keys of the add calls since the last reset
  nfail,               \* failures injected so far
  nresets,             \* resets so far
  nprev,               \* add calls before the last reset
  fault,               \* what failed in the last operation: "none", "flush"
                       \* (write or directory growth), "alloc" (tree node),
                       \* "read" (merge)
  arg,                 \* arguments of a call of a static or descriptor function
  res                  \* what that call returned

vars == <<max_in_memory_size, min_dupl_count, with_counters, tree, tree_flag,
          memory_used, elements, file, file_ptrs, out, pc, retval,
          hist, nfail, nresets, nprev, fault, arg, res>>

params == <<max_in_memory_size, min_dupl_count, with_counters>>

\* the variables of the calls that need no engine instance
pure == <<arg, res>>

(* --------------------------- key descriptor ---------------------------- *)

\* the bytes int4store writes for the uint v, lowest first
int4store(v) ==
  [i \in 1..size_of_length_field |-> (v \div (ByteMod ^ (i - 1))) % ByteMod]

RECURSIVE korr(_, _)
korr(p, i) ==
  IF i > Len(p) THEN 0 ELSE p[i] * (ByteMod ^ (i - 1)) + korr(p, i + 1)

\* the uint read from the bytes p, lowest first
uint4korr(p) == korr(p, 1)

\* read_packed_length that returns the stored value alone
read_packed_length_payload(p) == uint4korr(p)

\* uint arithmetic
read_packed_length(p) == (size_of_length_field + uint4korr(p)) % UIntMod

\* the length prefix store_packed_length writes for the total length sz
store_packed_length(sz) == int4store((sz - size_of_length_field) % UIntMod)

\* the length prefix of key k: a packed record with a payload of k bytes
packed_key(k) == store_packed_length(size_of_length_field + k)

get_length_of_key(k) == read_packed_length(packed_key(k))

\* Fixed_size_keys_descriptor::compare_keys
Fixed_compare_keys(a, b) == 0

\* Variable_size_keys_descriptor::compare_keys: the comparison of the
\* payloads behind the length prefixes
Variable_compare_keys(a, b) ==
  IF uint4korr(packed_key(a)) < uint4korr(packed_key(b)) THEN -1
  ELSE IF uint4korr(packed_key(a)) > uint4korr(packed_key(b)) THEN 1 ELSE 0

compare_keys(variant, a, b) ==
  IF variant = "fixed" THEN Fixed_compare_keys(a, b)
  ELSE Variable_compare_keys(a, b)

\* the comparator the engine is constructed with: a total order on keys
comp_func(a, b) == IF a < b THEN -1 ELSE IF a > b THEN 1 ELSE 0

(* ------------------------------ the TREE ------------------------------- *)

EmptyTree == [k \in Keys |-> 0]

TreeKeys(t) == {k \in Keys : t[k] > 0}

elements_in_tree == Cardinality(TreeKeys(tree))

RECURSIVE SortKeys(_)
SortKeys(S) ==
  IF S = {} THEN <<>>
  ELSE LET m == CHOOSE x \in S : \A y \in S : comp_func(x, y) <= 0
       IN  <<m>> \o SortKeys(S \ {m})

\* in-order traversal: the entries of t in comparator order
tree_walk(t) ==
  LET ks == SortKeys(TreeKeys(t))
  IN  [i \in 1..Len(ks) |-> [key |-> ks[i], count |-> t[ks[i]]]]

\* res: "elem" an element (new or existing), "one" the (TREE_ELEMENT*) 1 of
\* TREE_ONLY_DUPS for an unmatched key, "null" allocation failure
tree_insert(t, flag, k, alloc_ok) ==
  IF t[k] > 0 THEN [tree |-> [t EXCEPT ![k] = @ + 1], res |-> "elem"]
  ELSE IF flag = TREE_ONLY_DUPS THEN [tree |-> t, res |-> "one"]
  ELSE IF alloc_ok THEN [tree |-> [t EXCEPT ![k] = 1], res |-> "elem"]
  ELSE [tree |-> t, res |-> "null"]

(* ------------------------- accessors of the engine --------------------- *)

my_b_tell == Len(file)

\* is_in_memory with the test inverted
is_in_memory_inverted == my_b_tell # 0

is_in_memory == my_b_tell = 0

\* get_n_elements that never consults the elements counter
get_n_elements_tree_only == elements_in_tree

\* get_n_elements with the two branches exchanged
get_n_elements_swapped == IF is_in_memory THEN elements ELSE elements_in_tree

get_n_elements == IF is_in_memory THEN elements_in_tree ELSE elements

DbugAssertHolds == max_in_memory_size >= memory_used

\* max_in_memory_size - memory_used in size_t arithmetic
space_left == (max_in_memory_size - memory_used) % SizeTMod

is_full(record_size) ==
  IF elements_in_tree = 0 THEN FALSE
  ELSE record_size > space_left

(* ------------------------------- flush --------------------------------- *)

\* the entry written to a run for a tree entry
run_entry(e) == [key |-> e.key, count |-> IF with_counters THEN e.count ELSE 0]

run_of_tree(t) == LET w == tree_walk(t) IN [i \in 1..Len(w) |-> run_entry(w[i])]

\* outcomes of a flush of t: complete, or failed after `written` entries
\* (written = all of them: the run directory could not grow)
FlushOutcomes(t) ==
  LET n == Cardinality(TreeKeys(t))
  IN  {[ok |-> TRUE, written |-> n]} \cup
      (IF nfail < MaxFailures
       THEN {[ok |-> FALSE, written |-> j] : j \in 0..n} ELSE {})

flush(fl) ==
  LET recs == run_of_tree(tree)
  IN  IF fl.ok
      THEN [ret |-> 0, flushed |-> TRUE,
            file |-> file \o recs,
            file_ptrs |-> Append(file_ptrs,
                                 [pos |-> my_b_tell, rowcount |-> Len(recs)]),
            tree |-> EmptyTree, memory_used |-> 0,
            elements |-> elements + Len(recs)]
      ELSE [ret |-> 1, flushed |-> FALSE,
            file |-> file \o SubSeq(recs, 1, fl.written),
            file_ptrs |-> file_ptrs,
            tree |-> tree, memory_used |-> memory_used,
            elements |-> elements]

\* unique_add when the flush condition is false: nothing is flushed
no_flush ==
  [ret |-> 0, flushed |-> FALSE, file |-> file, file_ptrs |-> file_ptrs,
   tree |-> tree, memory_used |-> memory_used, elements |-> elements]

(* ----------------------------- unique_add ------------------------------ *)

rec_size(k) == get_length_of_key(k) + TreeElementOverhead

\* must_flush without the test of TREE_ONLY_DUPS
must_flush_any_mode(k) == is_full(rec_size(k))

\* the tree is open for new keys and is_full says the record does not fit
must_flush(k) == tree_flag # TREE_ONLY_DUPS /\ is_full(rec_size(k))

\* space_left is evaluated by this add, and its assertion does not hold
assert_fails == /\ tree_flag # TREE_ONLY_DUPS
                /\ elements_in_tree # 0
                /\ ~DbugAssertHolds

\* charge that also charges a duplicate
charge_always(mem, size, count, new_count) == mem + size

\* memory_used after tree_insert: charged only when the tree grew
charge(mem, size, count, new_count) ==
  IF new_count # count THEN mem + size ELSE mem

\* add_insert of a unique_add that returns the status of flush() when the tree
\* was full, without inserting the key
add_insert_dropped(f, k, alloc_ok) ==
  LET count == Cardinality(TreeKeys(f.tree))
      ins   == tree_insert(f.tree, tree_flag, k, alloc_ok)
  IN  IF f.flushed
      THEN [tree |-> f.tree, memory_used |-> f.memory_used, ret |-> 0]
      ELSE [tree |-> ins.tree,
            memory_used |-> charge(f.memory_used, rec_size(k), count,
                                   Cardinality(TreeKeys(ins.tree))),
            ret |-> IF ins.res = "null" THEN 1 ELSE 0]

\* the part of unique_add after the flush test, on the state f it left
add_insert(f, k, alloc_ok) ==
  LET count == Cardinality(TreeKeys(f.tree))
      ins   == tree_insert(f.tree, tree_flag, k, alloc_ok)
  IN  [tree |-> ins.tree,
       memory_used |-> charge(f.memory_used, rec_size(k), count,
                              Cardinality(TreeKeys(ins.tree))),
       ret |-> IF ins.res = "null" THEN 1 ELSE 0]

\* add_result of a unique_add that goes on to insert after a failed flush
add_result_ignoring_flush(f, a) == a

\* what unique_add leaves and returns: 1 at once when the flush failed,
\* otherwise the outcome a of the insertion
add_result(f, a) ==
  IF f.ret = 1
  THEN [tree |-> tree, memory_used |-> memory_used, ret |-> 1]
  ELSE a

unique_add(k) ==
  /\ pc = "open" /\ nprev + Len(hist) < MaxAdds
  /\ \E dbug \in BOOLEAN, fl \in FlushOutcomes(tree), alloc_ok \in BOOLEAN :
       LET f == IF must_flush(k) THEN flush(fl) ELSE no_flush
           a == add_insert(f, k, alloc_ok)
           r == add_result(f, a)
           what == IF ~fl.ok THEN "flush"
                   ELSE IF ~alloc_ok THEN "alloc" ELSE "none"
       IN  /\ must_flush(k) \/ fl.ok
           /\ alloc_ok \/ nfail < MaxFailures
           /\ alloc_ok \/ (f.ret = 0 /\ f.tree[k] = 0
                            /\ tree_flag # TREE_ONLY_DUPS)
           /\ dbug => assert_fails
           /\ IF dbug
              THEN /\ pc' = "aborted"
                   /\ UNCHANGED <<tree, memory_used, elements, file, file_ptrs,
                                  retval, nfail, fault>>
              ELSE /\ file' = f.file /\ file_ptrs' = f.file_ptrs
                   /\ elements' = f.elements
                   /\ tree' = r.tree
                   /\ memory_used' = r.memory_used
                   /\ retval' = r.ret
                   /\ pc' = IF r.ret = 1 THEN "failed" ELSE "open"
                   /\ fault' = what
                   /\ nfail' = IF what = "none" THEN nfail ELSE nfail + 1
  /\ hist' = Append(hist, k)
  /\ UNCHANGED <<params, pure, tree_flag, out, nresets, nprev>>

close_for_expansion ==
  /\ pc = "open"
  /\ tree_flag # TREE_ONLY_DUPS
  /\ tree_flag' = TREE_ONLY_DUPS
  /\ retval' = 0
  /\ UNCHANGED <<params, pure, tree, memory_used, elements, file, file_ptrs,
                 out, pc, hist, nfail, nresets, nprev, fault>>

(* ------------------------------- merge --------------------------------- *)

\* the entries of the i-th run of directory ptrs in file f
run_at(f, ptrs, i) ==
  SubSeq(f, ptrs[i].pos + 1, ptrs[i].pos + ptrs[i].rowcount)

RECURSIVE sum_counts(_, _)
sum_counts(runs, I) ==
  IF I = {} THEN 0
  ELSE LET i == CHOOSE j \in I : TRUE
       IN  Head(runs[i]).count + sum_counts(runs, I \ {i})

\* k-way merge of sorted runs: the minimum head is emitted once with the
\* counters of all tied heads summed, and every tied stream advances
RECURSIVE merge_runs(_)
merge_runs(runs) ==
  LET active == {i \in DOMAIN runs : runs[i] # <<>>}
  IN  IF active = {} THEN <<>>
      ELSE LET top  == CHOOSE i \in active : \A j \in active :
                         comp_func(Head(runs[i]).key, Head(runs[j]).key) <= 0
               key  == Head(runs[top]).key
               tied == {i \in active :
                          comp_func(Head(runs[i]).key, key) = 0}
               rest == [i \in DOMAIN runs |->
                          IF i \in tied THEN Tail(runs[i]) ELSE runs[i]]
           IN  <<[key |-> key, count |-> sum_counts(runs, tied)]>>
                 \o merge_runs(rest)

RECURSIVE concat_runs(_)
concat_runs(runs) ==
  IF runs = <<>> THEN <<>> ELSE Head(runs) \o concat_runs(Tail(runs))

\* merge that emits the runs one after the other
merge_concatenated(f, ptrs) ==
  concat_runs([i \in 1..Len(ptrs) |-> run_at(f, ptrs, i)])

merge(f, ptrs) == merge_runs([i \in 1..Len(ptrs) |-> run_at(f, ptrs, i)])

\* min_dupl_count filter on a combined entry
survives(e) == e.count >= min_dupl_count

(* ----------------------------- get / walk ------------------------------ *)

\* get and walk: the tree alone when nothing was flushed, otherwise a final
\* flush and the merge of all runs
materialize ==
  /\ pc = "open"
  /\ \E fl \in FlushOutcomes(tree), io_ok \in BOOLEAN :
       LET f == flush(fl)
       IN  /\ is_in_memory => (fl.ok /\ io_ok)
           /\ io_ok \/ (fl.ok /\ nfail < MaxFailures)
           /\ IF is_in_memory
              THEN /\ out' = SelectSeq(run_of_tree(tree), survives)
                   /\ retval' = 0 /\ pc' = "done"
                   /\ UNCHANGED <<tree, memory_used, elements, file,
                                  file_ptrs, nfail, fault>>
              ELSE IF f.ret = 1
              THEN /\ file' = f.file
                   /\ out' = <<>> /\ retval' = 1 /\ pc' = "failed"
                   /\ nfail' = nfail + 1 /\ fault' = "flush"
                   /\ UNCHANGED <<tree, memory_used, elements, file_ptrs>>
              ELSE /\ file' = f.file /\ file_ptrs' = f.file_ptrs
                   /\ tree' = f.tree /\ memory_used' = f.memory_used
                   /\ elements' = f.elements
                   /\ IF io_ok
                      THEN /\ out' = SelectSeq(merge(f.file, f.file_ptrs),
                                               survives)
                           /\ retval' = 0 /\ pc' = "done"
                           /\ UNCHANGED <<nfail, fault>>
                      ELSE /\ out' = <<>> /\ retval' = 1 /\ pc' = "failed"
                           /\ nfail' = nfail + 1 /\ fault' = "read"
  /\ UNCHANGED <<params, pure, tree_flag, hist, nresets, nprev>>

get == materialize

walk == materialize

(* -------------------------------- reset -------------------------------- *)

\* reset that leaves the spill file and the run directory as they are
reset_keeping_runs ==
  /\ pc # "aborted" /\ nresets < MaxResets
  /\ tree' = EmptyTree /\ tree_flag' = 0
  /\ memory_used' = 0 /\ elements' = 0
  /\ out' = <<>> /\ pc' = "open"
  /\ retval' = 0
  /\ hist' = <<>> /\ nprev' = nprev + Len(hist)
  /\ nresets' = nresets + 1 /\ fault' = "none"
  /\ UNCHANGED <<params, pure, nfail, file, file_ptrs>>

reset ==
  /\ pc # "aborted" /\ nresets < MaxResets
  /\ tree' = EmptyTree /\ tree_flag' = 0
  /\ memory_used' = 0 /\ elements' = 0
  /\ file' = <<>> /\ file_ptrs' = <<>>
  /\ out' = <<>> /\ pc' = "open"
  /\ retval' = 0
  /\ hist' = <<>> /\ nprev' = nprev + Len(hist)
  /\ nresets' = nresets + 1 /\ fault' = "none"
  /\ UNCHANGED <<params, pure, nfail>>

(* -------------------------------- Init --------------------------------- *)

\* no static or descriptor function is being called
NoCall == [fn |-> "none"]

Init ==
  /\ max_in_memory_size \in Budgets
  /\ min_dupl_count \in 0..MaxMinDupl
  /\ with_counters \in BOOLEAN
  /\ min_dupl_count > 0 => with_counters
  /\ tree = EmptyTree /\ tree_flag = 0
  /\ memory_used = 0 /\ elements = 0
  /\ file = <<>> /\ file_ptrs = <<>>
  /\ out = <<>> /\ pc = "open"
  /\ retval = 0
  /\ hist = <<>> /\ nfail = 0 /\ nresets = 0 /\ nprev = 0
  /\ fault = "none"
  /\ arg = NoCall /\ res = 0

Next ==
  \/ \E k \in Keys : unique_add(k)
  \/ close_for_expansion
  \/ get
  \/ walk
  \/ reset

Spec == Init /\ [][Next]_vars

(* ---------------- static and descriptor functions ---------------------- *)

\* the conversion of an unsigned value to int
to_int(x) ==
  LET y == x % UIntMod IN IF y >= UIntMod \div 2 THEN y - UIntMod ELSE y

ALIGN_SIZE(a) == ((a + sizeof_double - 1) \div sizeof_double) * sizeof_double

get_cost_calc_buff_size(nkeys, key_size, max_size) ==
  LET q == max_size \div (ALIGN_SIZE(sizeof_TREE_ELEMENT + key_size) % SizeTMod)
      max_elems_in_tree == IF q = 0 THEN 1 ELSE q
  IN  to_int((sizeof_uint * (1 + nkeys \div max_elems_in_tree)) % SizeTMod)

\* the arguments tried
NKeysTried ==
  0..MaxNKeys \cup
  {UIntMod \div (2 * sizeof_uint) - 2, UIntMod \div (2 * sizeof_uint) - 1,
   UIntMod \div sizeof_uint - 1, SizeTMod \div sizeof_uint - 1, SizeTMod - 1}
KeySizesTried == {0, 1, 8, 9, UIntMod - 1}
MaxSizesTried == {0, 1, 31, 32, 33, 64, 65, SizeTMod - 1}

call_get_cost_calc_buff_size ==
  /\ arg = NoCall
  /\ \E n \in NKeysTried, ks \in KeySizesTried, m \in MaxSizesTried :
       /\ arg' = [fn |-> "get_cost_calc_buff_size",
                  nkeys |-> n, key_size |-> ks, max_in_memory_size |-> m]
       /\ res' = get_cost_calc_buff_size(n, ks, m)
  /\ UNCHANGED <<params, tree, tree_flag, memory_used, elements, file,
                 file_ptrs, out, pc, retval, hist, nfail, nresets, nprev,
                 fault>>

\* store_packed_length(p, sz), then read_packed_length(p)
call_packed_length ==
  /\ arg = NoCall
  /\ \E sz \in 0..(UIntMod - 1) :
       /\ arg' = [fn |-> "packed_length", sz |-> sz]
       /\ res' = [length |-> read_packed_length(store_packed_length(sz)),
                  stored |-> uint4korr(store_packed_length(sz))]
  /\ UNCHANGED <<params, tree, tree_flag, memory_used, elements, file,
                 file_ptrs, out, pc, retval, hist, nfail, nresets, nprev,
                 fault>>

\* compare_keys(a, b) and compare_keys(b, a) of one descriptor
call_compare_keys ==
  /\ arg = NoCall
  /\ \E v \in {"fixed", "variable"}, a \in Keys, b \in Keys :
       /\ arg' = [fn |-> "compare_keys", variant |-> v, a |-> a, b |-> b]
       /\ res' = [ab |-> compare_keys(v, a, b), ba |-> compare_keys(v, b, a)]
  /\ UNCHANGED <<params, tree, tree_flag, memory_used, elements, file,
                 file_ptrs, out, pc, retval, hist, nfail, nresets, nprev,
                 fault>>

\* no engine instance is constructed
PureInit ==
  /\ max_in_memory_size = 0 /\ min_dupl_count = 0 /\ with_counters = FALSE
  /\ tree = EmptyTree /\ tree_flag = 0
  /\ memory_used = 0 /\ elements = 0
  /\ file = <<>> /\ file_ptrs = <<>>
  /\ out = <<>> /\ pc = "none"
  /\ retval = 0
  /\ hist = <<>> /\ nfail = 0 /\ nresets = 0 /\ nprev = 0
  /\ fault = "none"
  /\ arg = NoCall /\ res = 0

PureNext ==
  \/ call_get_cost_calc_buff_size
  \/ call_packed_length
  \/ call_compare_keys

PureSpec == PureInit /\ [][PureNext]_vars

(* ------------------------ auxiliary definitions ------------------------ *)

Range(h) == {h[i] : i \in 1..Len(h)}

\* number of add calls in h whose key compares equal to k
Occ(h, k) == Cardinality({i \in 1..Len(h) : comp_func(h[i], k) = 0})

\* the runs of the directory that hold a key equal to k
RunsWith(k) ==
  {i \in 1..Len(file_ptrs) :
     \E j \in 1..file_ptrs[i].rowcount :
       comp_func(file[file_ptrs[i].pos + j].key, k) = 0}

\* every add so far returned 0 and inserted or counted its key
AllAdded == pc \in {"open", "done"} /\ tree_flag # TREE_ONLY_DUPS

\* all keys of h in one tree that is never flushed
RECURSIVE tree_of(_)
tree_of(h) ==
  IF h = <<>> THEN EmptyTree
  ELSE tree_insert(tree_of(SubSeq(h, 1, Len(h) - 1)), 0, h[Len(h)], TRUE).tree

\* what get emits for h when nothing is ever flushed
UnspilledOutput(h) == SelectSeq(run_of_tree(tree_of(h)), survives)

(* ------------------------------- claims -------------------------------- *)

\* C1: in every reachable state memory_used <= max_in_memory_size, or the
\* tree holds exactly one element whose own record size exceeds the budget.
C1_MemoryBound ==
  \/ memory_used <= max_in_memory_size
  \/ /\ elements_in_tree = 1
     /\ \A k \in TreeKeys(tree) : rec_size(k) > max_in_memory_size

\* C2: with counters enabled, the count get/walk emit for a key is the number
\* of add calls with an equal key, also when the adds were separated by
\* flushes.
C2_Counting ==
  (pc = "done" /\ with_counters /\ AllAdded) =>
    \A i \in 1..Len(out) : out[i].count = Occ(hist, out[i].key)

\* a key added more than once whose occurrences lie in two different runs was
\* emitted with its combined count
C2_Witness ==
  /\ pc = "done" /\ with_counters /\ AllAdded
  /\ \E i \in 1..Len(out) :
       /\ out[i].count >= 2
       /\ Cardinality(RunsWith(out[i].key)) >= 2

\* C3: with min_dupl_count <= 1, get/walk emit every added key exactly once
\* and nothing else.
C3_Distinct ==
  (pc = "done" /\ min_dupl_count <= 1 /\ AllAdded) =>
    \A k \in Keys :
      Cardinality({i \in 1..Len(out) : comp_func(out[i].key, k) = 0})
        = IF k \in Range(hist) THEN 1 ELSE 0

\* a key that sits in two runs, next to another key, was emitted
C3_Witness ==
  /\ pc = "done" /\ min_dupl_count <= 1 /\ AllAdded
  /\ Len(out) >= 2
  /\ \E k \in Keys : Cardinality(RunsWith(k)) >= 2

\* C4: the keys emitted by get/walk are strictly increasing under the
\* comparator.
C4_Order ==
  pc = "done" =>
    \A i \in 1..(Len(out) - 1) : comp_func(out[i].key, out[i + 1].key) < 0

\* several keys were emitted from a merge of three runs or more
C4_Witness ==
  pc = "done" /\ Len(out) >= 2 /\ Len(file_ptrs) >= 3

\* C5: with min_dupl_count = N > 1 a key is emitted iff its combined count
\* is >= N, and the count emitted for it is its full count.
C5_Threshold ==
  (pc = "done" /\ min_dupl_count > 1 /\ AllAdded) =>
    {out[i] : i \in 1..Len(out)} =
      {[key |-> k, count |-> Occ(hist, k)] :
         k \in {x \in Range(hist) : Occ(hist, x) >= min_dupl_count}}

\* one key was dropped and another survived although none of the runs holds
\* it with a count of N
C5_Witness ==
  /\ pc = "done" /\ min_dupl_count > 1 /\ AllAdded
  /\ Len(out) = 1 /\ Cardinality(Range(hist)) = 2
  /\ \A j \in 1..Len(file) : file[j].count < min_dupl_count

\* C6: the output of get does not depend on max_in_memory_size: it is the
\* output of an instance that never flushed.
C6_SpillTransparent ==
  (pc = "done" /\ AllAdded) => out = UnspilledOutput(hist)

\* an output produced under the smallest budget from three runs
C6_Witness ==
  /\ pc = "done" /\ AllAdded /\ out # <<>>
  /\ \A b \in Budgets : max_in_memory_size <= b
  /\ Len(file_ptrs) >= 3

\* C7: after reset the instance is as just constructed (no elements, in
\* memory, nothing charged, no runs), and adds followed by get then yield
\* what a fresh instance yields for them.
C7_Reset ==
  /\ [][nresets' = nresets + 1 =>
          /\ get_n_elements' = 0 /\ is_in_memory' /\ memory_used' = 0
          /\ file_ptrs' = <<>> /\ file' = <<>>
          /\ tree' = EmptyTree /\ tree_flag' = 0 /\ elements' = 0
          /\ out' = <<>> /\ pc' = "open"]_vars
  /\ []((nresets > 0 /\ pc = "done" /\ AllAdded) =>
          /\ out = UnspilledOutput(hist)
          /\ \A i \in 1..Len(file) : file[i].key \in Range(hist))

\* after two adds and a reset, a key was added and emitted
C7_Witness ==
  /\ nresets > 0 /\ nprev >= 2 /\ pc = "done" /\ AllAdded
  /\ out # <<>>

\* C8 as stated: get_n_elements() is the number of distinct keys added.
C8_DistinctCount ==
  AllAdded => get_n_elements = Cardinality(Range(hist))

RECURSIVE sum_rowcount(_)
sum_rowcount(ptrs) ==
  IF ptrs = <<>> THEN 0 ELSE Head(ptrs).rowcount + sum_rowcount(Tail(ptrs))

\* C8 amended: while the spill file is unwritten get_n_elements() is the
\* number of distinct keys added; once it is written get_n_elements() is the
\* elements counter, the sum of the sizes of the completed runs.
C8_NElements ==
  /\ (is_in_memory /\ AllAdded) =>
       get_n_elements = Cardinality(Range(hist))
  /\ ~is_in_memory =>
       /\ get_n_elements = sum_rowcount(file_ptrs)
       /\ get_n_elements = elements

\* after a flush the counter misses the key in the tree
C8_Witness ==
  /\ pc = "open" /\ AllAdded /\ ~is_in_memory
  /\ elements_in_tree > 0
  /\ get_n_elements < Cardinality(Range(hist))

\* C9 as stated: is_in_memory() is true exactly when the run directory
\* holds no completed run.
C9_IffNoRun == is_in_memory <=> (file_ptrs = <<>>)

\* C9 amended: a completed run implies is_in_memory() false, and while no
\* operation has failed is_in_memory() is true exactly when the directory is
\* empty; is_in_memory() is true only if no entry was written.
C9_InMemory ==
  /\ file_ptrs # <<>> => ~is_in_memory
  /\ pc # "failed" => (is_in_memory <=> file_ptrs = <<>>)
  /\ is_in_memory => (elements = 0 /\ file = <<>>)

\* a flush failed part-way: entries were written, no run was completed
C9_Witness ==
  pc = "failed" /\ ~is_in_memory /\ file_ptrs = <<>> /\ elements_in_tree > 0

\* the step is an add of a key equal to one already in the tree, and no
\* failure is injected in it
AddOfHeldKey ==
  /\ Len(hist') = Len(hist) + 1 /\ nfail' = nfail
  /\ tree[hist'[Len(hist')]] > 0

InPlace ==
  /\ elements_in_tree' = elements_in_tree
  /\ memory_used' = memory_used
  /\ file' = file /\ file_ptrs' = file_ptrs

\* C10 as stated: an add of a key already in the tree changes neither
\* elements_in_tree nor memory_used nor the spill file nor the directory.
C10_AlwaysInPlace == [][AddOfHeldKey => InPlace]_vars

\* C10 amended: an add of a key already in the tree is an in-place counter
\* update when the tree is in duplicates-only mode or is_full is false for
\* the key's record size.
C10_InPlaceUnlessFull ==
  [][(AddOfHeldKey /\ ~must_flush(hist'[Len(hist')])) =>
       /\ InPlace
       /\ pc' = "aborted" \/
            /\ retval' = 0
            /\ tree' = [tree EXCEPT ![hist'[Len(hist')]] = @ + 1]]_vars

\* a duplicate was counted in place in a tree of two keys
C10_Witness ==
  /\ pc = "open" /\ file = <<>> /\ Len(hist) = 3
  /\ memory_used <= max_in_memory_size
  /\ elements_in_tree = 2
  /\ tree[hist[3]] = 2

RECURSIVE run_charge(_)
\* the bytes charged to the tree for the entries of a run
run_charge(run) ==
  IF run = <<>> THEN 0
  ELSE rec_size(Head(run).key) + run_charge(Tail(run))

\* C11: every completed run is non-empty, and the charged size of its keys
\* is within max_in_memory_size unless the run is a single element.
C11_Runs ==
  \A i \in 1..Len(file_ptrs) :
    /\ file_ptrs[i].rowcount >= 1
    /\ \/ run_charge(run_at(file, file_ptrs, i)) <= max_in_memory_size
       \/ file_ptrs[i].rowcount = 1

\* the step is an add
AddStep == Len(hist') = Len(hist) + 1

\* C12: once the tree is in duplicates-only mode an add neither grows the
\* tree nor spills nor fails, leaves the tree as it is when its key is not
\* held, counts a held key, and leaves the mode set.
C12_OnlyDups ==
  [][(AddStep /\ tree_flag = TREE_ONLY_DUPS) =>
       LET k == hist'[Len(hist')]
       IN  /\ InPlace /\ elements' = elements
           /\ retval' = 0 /\ pc' = "open"
           /\ tree_flag' = TREE_ONLY_DUPS
           /\ tree' = IF tree[k] > 0 THEN [tree EXCEPT ![k] = @ + 1]
                      ELSE tree]_vars

\* in duplicates-only mode a key that is not held, and for which the tree
\* would have been full, was added with success and nothing changed
C12_Witness ==
  /\ pc = "open" /\ tree_flag = TREE_ONLY_DUPS /\ retval = 0
  /\ Len(hist) >= 2 /\ tree[hist[Len(hist)]] = 0
  /\ elements_in_tree >= 1 /\ file = <<>>
  /\ memory_used <= max_in_memory_size
  /\ rec_size(hist[Len(hist)]) > space_left

\* C14: an add whose flush fails returns 1 and leaves the tree, memory_used,
\* the run directory and the elements counter as they were; every failure
\* is returned as 1, and a failed get/walk emits nothing.
C14_FlushFailure ==
  /\ [][(AddStep /\ fault' = "flush") =>
          /\ retval' = 1
          /\ tree' = tree /\ memory_used' = memory_used
          /\ file_ptrs' = file_ptrs /\ elements' = elements]_vars
  /\ [](fault # "none" => (retval = 1 /\ pc = "failed" /\ out = <<>>))

\* the flush of an add failed after it wrote an entry: the key was not
\* inserted and no run was completed
C14_Witness ==
  /\ fault = "flush" /\ retval = 1 /\ file # <<>> /\ file_ptrs = <<>>
  /\ Len(hist) = 3 /\ tree[hist[3]] = 0 /\ elements_in_tree = 2

Max(a, b) == IF a >= b THEN a ELSE b

\* C15: get_cost_calc_buff_size returns sizeof(uint) * (1 + nkeys /
\* max_elems_in_tree) with max_elems_in_tree = max(1, max_in_memory_size /
\* aligned(tree element + key)), a positive multiple of sizeof(uint).
C15_BuffSize ==
  arg.fn = "get_cost_calc_buff_size" =>
    LET max_elems == Max(1, arg.max_in_memory_size \div
                              ALIGN_SIZE(sizeof_TREE_ELEMENT + arg.key_size))
    IN  /\ res = sizeof_uint * (1 + arg.nkeys \div max_elems)
        /\ res > 0
        /\ res % sizeof_uint = 0

\* C16: read_packed_length returns the total length store_packed_length was
\* given, for every length; the length read is 4 plus the stored value in
\* uint arithmetic, and for a length that covers the prefix the stored value
\* is the payload length and the sum is exact.
C16_PackedLength ==
  arg.fn = "packed_length" =>
    /\ res.length = arg.sz
    /\ res.length = (size_of_length_field + res.stored) % UIntMod
    /\ arg.sz >= size_of_length_field =>
         /\ res.stored = arg.sz - size_of_length_field
         /\ res.length = size_of_length_field + res.stored

\* the total length 0 of an excluded NULL was stored and read back
C16_Witness ==
  arg.fn = "packed_length" /\ arg.sz = 0 /\ res.length = 0 /\ res.stored > 0

Sign(x) == IF x < 0 THEN -1 ELSE IF x > 0 THEN 1 ELSE 0

\* C17: compare_keys of either descriptor is a total order: 0 only for equal
\* keys, opposite signs for exchanged arguments, and for fixed-size keys the
\* result of the comparator the caller supplies.
C17_TotalOrder ==
  arg.fn = "compare_keys" =>
    /\ res.ab = 0 <=> arg.a = arg.b
    /\ Sign(res.ab) = -Sign(res.ba)
    /\ arg.variant = "fixed" =>
         Sign(res.ab) = Sign(comp_func(arg.a, arg.b))

\* C18: every add that evaluates space_left finds max_in_memory_size >=
\* memory_used: the assertion holds and the difference does not wrap.
C18_AssertionHolds ==
  [][AddStep => ~assert_fails]_vars

RECURSIVE charged(_)
\* the sum of the record sizes of a set of keys
charged(ks) ==
  IF ks = {} THEN 0
  ELSE LET k == CHOOSE x \in ks : TRUE IN rec_size(k) + charged(ks \ {k})

\* the step is an add of a key for which the tree is full, and the add
\* returns
AddThatFlushes ==
  /\ AddStep /\ pc' # "aborted"
  /\ must_flush(hist'[Len(hist')])

\* the add ends with its key alone in the tree and one more run
OneElementOneRun ==
  /\ elements_in_tree' = 1
  /\ memory_used' = rec_size(hist'[Len(hist')])
  /\ Len(file_ptrs') = Len(file_ptrs) + 1

C20_Monotone ==
  [][(AddStep /\ retval' = 0 /\ pc' = "open") =>
       get_n_elements' >= get_n_elements]_vars

\* after the first flush the count comes from the elements counter, which
\* holds the keys flushed and is not below the count before the add
C20_Witness ==
  /\ pc = "open" /\ retval = 0 /\ nresets = 0
  /\ ~is_in_memory /\ Len(file_ptrs) = 1
  /\ get_n_elements = 2 /\ elements_in_tree = 1

====
